---- MODULE Spec2Model ----
(***************************************************************************)
(* Model of src/vmware_task.py: the two Implementation variants            *)
(* (WindowsImplementation, LinuxMacImplementation) of the four operations  *)
(* create_text_file, ping_url, request_and_get, run_test_batch, and the    *)
(* orchestrator run_tasks.                                                  *)
(*                                                                         *)
(* The environment (filesystem, ping utility, resolver, HTTP server, child *)
(* process) is modelled by the state variables dirs/writable/files/scripts *)
(* and by the inputs every action draws with \E.  An exception that leaves *)
(* an operation is recorded in the field exc of the call and aborts        *)
(* run_tasks (pc = "aborted").                                             *)
(***************************************************************************)
EXTENDS Integers, Sequences, FiniteSets, TLC

(* ----------------------------- bounds ---------------------------------- *)

\* Number of times run_tasks is invoked on the same filesystem.
MaxRuns == 2

(* --------------------------- program constants ------------------------- *)

\* requests.get(..., timeout=10)
HttpTimeout == 10

\* pathlib.Path(..., "Hello.txt")
MarkerName == "Hello.txt"

\* f.write("Hello")
MarkerContent == "Hello"

(* ------------------------------ universe ------------------------------- *)

Root == << >>
Home == <<"home">>
Home2 == <<"home2">>

\* Directories that may exist; Home2 never exists (a bad path).
DirPaths == {Root, Home}

\* Every file the program can try to open for writing.
FilePaths == {d \o <<MarkerName>> : d \in DirPaths}

\* Content of a file: "absent" (no such file), "" (created or truncated, nothing
\* written), "old" (somebody else's content), MarkerContent.
Contents == {"absent", "", "old", MarkerContent}

\* A path argument: its components and whether it ends with a separator.
PathArgs ==
    { [comps |-> Root, trail |-> TRUE],
      [comps |-> Home, trail |-> FALSE],
      [comps |-> Home, trail |-> TRUE],
      [comps |-> Home2, trail |-> FALSE],
      [comps |-> Home \o <<MarkerName>>, trail |-> FALSE] }

Addresses == {"127.0.0.1", "125.88.88.99"}
Hosts == {"localhost", "host.example"}
ScriptNames == {"test.sh", "test2.bat"}

\* Outcome of the OS while the marker file is opened and written:
\* "none", "EACCES" (open refused: PermissionError), "ENOSPC" (open succeeded,
\* the write failed: OSError, the file is left empty).
OsErrors == {"none", "EACCES", "ENOSPC"}

\* Exit statuses of a child process.
ExitStatuses == {0, 1}

\* socket.gethostbyaddr raises socket.herror (an OSError) when there is no PTR.
NoPTR == "herror"

StatusCodes == {200, 404, 500}
RequestExceptions == {"ConnectionError", "Timeout"}
HttpOutcomes ==
    {[exc |-> "none", status |-> s] : s \in StatusCodes}
        \cup {[exc |-> e, status |-> 0] : e \in RequestExceptions}

\* Exception classes that are subclasses of OSError.
OSErrorClasses ==
    {"OSError", "PermissionError", "FileNotFoundError", "NotADirectoryError",
     "FileExistsError", "herror"}

VARIABLES
    variant,    \* "Windows" | "POSIX": the Implementation behind the VmwareTask
    dirs,       \* existing directories
    writable,   \* directories with write permission
    files,      \* FilePaths -> Contents
    scripts,    \* regular files of the current working directory
    runs,       \* invocations of run_tasks so far
    pc,         \* position in run_tasks
    file_path,  \* run_tasks parameter
    ip,         \* run_tasks parameter
    file_name,  \* run_tasks parameter
    success,    \* run_tasks local
    returned,   \* value returned by run_tasks (meaningful when pc = "done")
    calls,      \* operations invoked by this run, in order: [op, ret, exc]
    last,       \* the latest operation call with what it observed and did
    marked      \* path arguments for which create_text_file has returned True

vars ==
    <<variant, dirs, writable, files, scripts, runs, pc, file_path, ip,
      file_name, success, returned, calls, last, marked>>

(* ------------------------------ os.path -------------------------------- *)

Front(s) == SubSeq(s, 1, Len(s) - 1)

\* os.path.dirname: everything before the last separator.
dirname(p) ==
    IF p.trail \/ p.comps = Root THEN p.comps ELSE Front(p.comps)

IsFile(f) == f \in FilePaths /\ files[f] # "absent"

\* os.path.exists
exists(p) == p.comps \in dirs \/ (~p.trail /\ IsFile(p.comps))

\* os.access(d, os.W_OK)
access_W_OK(d) == d \in dirs /\ d \in writable

\* os.path.isfile, relative to the current working directory
isfile(name) == name \in scripts

\* pathlib.Path(d, "Hello.txt")
Path(d, name) == d \o <<name>>

(* ------------------------------ open / write --------------------------- *)

\* open(target, mode) followed by f.write("Hello"); the exception raised (or
\* "none") and the files afterwards.
OpenAndWrite(target, mode, oserr) ==
    LET parent == Front(target) IN
    IF parent \notin dirs
      THEN [exc |-> IF IsFile(parent) THEN "NotADirectoryError"
                                      ELSE "FileNotFoundError",
            files |-> files]
    ELSE IF mode = "x" /\ files[target] # "absent"
      THEN [exc |-> "FileExistsError", files |-> files]
    ELSE IF files[target] = "absent" /\ parent \notin writable
      THEN [exc |-> "PermissionError", files |-> files]
    ELSE IF oserr = "EACCES"
      THEN [exc |-> "PermissionError", files |-> files]
    ELSE IF oserr = "ENOSPC"
      THEN [exc |-> "OSError", files |-> [files EXCEPT ![target] = ""]]
    ELSE [exc |-> "none", files |-> [files EXCEPT ![target] = MarkerContent]]

\* Result of an operation: the boolean returned (when exc = "none"), the
\* exception that left it, and its side effects.
Result(ret, exc, fs, http, spawn) ==
    [ret |-> ret, exc |-> exc, files |-> fs, http |-> http, spawn |-> spawn]

(* ------------------------ WindowsImplementation ------------------------ *)

WindowsImplementation_validate_path(p) ==
    exists(p) /\ access_W_OK(dirname(p))

WindowsImplementation_create_text_file(p, oserr) ==
    IF ~WindowsImplementation_validate_path(p)
      THEN Result(FALSE, "OSError", files, << >>, << >>)
      ELSE LET w == OpenAndWrite(Path(dirname(p), MarkerName), "w", oserr) IN
           IF w.exc = "FileExistsError"
             THEN Result(FALSE, "none", w.files, << >>, << >>)
           ELSE IF w.exc \in OSErrorClasses
             THEN Result(FALSE, "none", w.files, << >>, << >>)
           ELSE Result(TRUE, "none", w.files, << >>, << >>)

\* subprocess.call(["ping", "-n", "1", ip]) == 0
WindowsImplementation_ping_url(addr, installed, status) ==
    IF ~installed
      THEN Result(FALSE, "FileNotFoundError", files, << >>, << >>)
      ELSE Result(status = 0, "none", files, << >>,
                  <<[cmd |-> <<"ping", "-n", "1", addr>>, cwd |-> "cwd"]>>)

\* Mutant: the response is accepted only with status 200.
request_and_get_StatusChecked(addr, dns, resp) ==
    IF dns = NoPTR
      THEN Result(FALSE, "none", files, << >>, << >>)
      ELSE LET get == <<[url |-> <<"http://", dns>>, timeout |-> HttpTimeout]>> IN
           Result(resp.exc = "none" /\ resp.status = 200, "none", files, get, << >>)

\* socket.gethostbyaddr, then requests.get("http://" + dns_ptr[0], timeout=10).
\* dns is the resolver's answer (a host name or NoPTR), resp the outcome of the
\* GET if one is sent.
WindowsImplementation_request_and_get(addr, dns, resp) ==
    IF dns = NoPTR
      THEN Result(FALSE, "none", files, << >>, << >>)
      ELSE LET get == <<[url |-> <<"http://", dns>>, timeout |-> HttpTimeout]>> IN
           IF resp.exc \in RequestExceptions
             THEN Result(FALSE, "none", files, get, << >>)
             ELSE Result(TRUE, "none", files, get, << >>)

\* subprocess.Popen(args, bufsize, ...): bufsize must be an integer, checked
\* before anything is launched.
Popen(args, bufsizeType, cwd) ==
    IF bufsizeType # "int"
      THEN [exc |-> "TypeError", spawn |-> << >>]
      ELSE [exc |-> "none", spawn |-> <<[cmd |-> args, cwd |-> cwd]>>]

\* subprocess.Popen(file_name, cwd): cwd, a str, is passed in the position of
\* bufsize.  Only subprocess.CalledProcessError is caught.
WindowsImplementation_run_test_batch(name, status) ==
    IF isfile(name)
      THEN LET p == Popen(<<name>>, "str", "cwd") IN
           IF p.exc = "CalledProcessError"
             THEN Result(FALSE, "none", files, << >>, p.spawn)
           ELSE IF p.exc # "none"
             THEN Result(FALSE, p.exc, files, << >>, p.spawn)
           ELSE Result(TRUE, "none", files, << >>, p.spawn)
      ELSE Result(FALSE, "none", files, << >>, << >>)

(* ------------------------ LinuxMacImplementation ----------------------- *)

LinuxMacImplementation_validate_path(p) == exists(p)

LinuxMacImplementation_create_text_file(p, oserr) ==
    IF ~LinuxMacImplementation_validate_path(p)
      THEN Result(FALSE, "none", files, << >>, << >>)
      ELSE LET w == OpenAndWrite(Path(p.comps, MarkerName), "w", oserr) IN
           IF w.exc = "FileExistsError"
             THEN Result(TRUE, "none", w.files, << >>, << >>)
           ELSE IF w.exc = "PermissionError"
             THEN Result(FALSE, "none", w.files, << >>, << >>)
           ELSE IF w.exc \in OSErrorClasses
             THEN Result(FALSE, "none", w.files, << >>, << >>)
           ELSE Result(TRUE, "none", w.files, << >>, << >>)

\* os.system("ping -c 1 " + str(ip)): the shell is always launched; a missing
\* ping utility is exit status 127 of the shell.
LinuxMacImplementation_ping_url(addr, installed, status) ==
    LET response == IF installed THEN status ELSE 127 IN
    Result(response = 0, "none", files, << >>,
           <<[cmd |-> <<"sh", "-c", "ping -c 1", addr>>, cwd |-> "cwd"]>>)

\* Mutant: a failed lookup falls through to a GET of the literal address.
request_and_get_NoLookupCheck(addr, dns, resp) ==
    LET host == IF dns = NoPTR THEN addr ELSE dns
        get == <<[url |-> <<"http://", host>>, timeout |-> HttpTimeout]>> IN
    IF resp.exc \in RequestExceptions
      THEN Result(FALSE, "none", files, get, << >>)
      ELSE Result(TRUE, "none", files, get, << >>)

LinuxMacImplementation_request_and_get(addr, dns, resp) ==
    IF dns = NoPTR
      THEN Result(FALSE, "none", files, << >>, << >>)
      ELSE LET get == <<[url |-> <<"http://", dns>>, timeout |-> HttpTimeout]>> IN
           IF resp.exc \in RequestExceptions
             THEN Result(FALSE, "none", files, get, << >>)
             ELSE Result(TRUE, "none", files, get, << >>)

\* Mutant: the script is run without the os.path.isfile check.
run_test_batch_NoIsFile(name, status) ==
    Result(TRUE, "none", files, << >>, <<[cmd |-> <<"sh", name>>, cwd |-> "cwd"]>>)

\* os.system("sh " + file_name): returns the status, never raises OSError.
LinuxMacImplementation_run_test_batch(name, status) ==
    IF isfile(name)
      THEN Result(TRUE, "none", files, << >>,
                  <<[cmd |-> <<"sh", name>>, cwd |-> "cwd"]>>)
      ELSE Result(FALSE, "none", files, << >>, << >>)

(* ------------------------------ VmwareTask ----------------------------- *)

create_text_file(p, oserr) ==
    IF variant = "Windows" THEN WindowsImplementation_create_text_file(p, oserr)
                           ELSE LinuxMacImplementation_create_text_file(p, oserr)

ping_url(addr, installed, status) ==
    IF variant = "Windows"
      THEN WindowsImplementation_ping_url(addr, installed, status)
      ELSE LinuxMacImplementation_ping_url(addr, installed, status)

request_and_get(addr, dns, resp) ==
    IF variant = "Windows"
      THEN WindowsImplementation_request_and_get(addr, dns, resp)
      ELSE LinuxMacImplementation_request_and_get(addr, dns, resp)

run_test_batch(name, status) ==
    IF variant = "Windows" THEN WindowsImplementation_run_test_batch(name, status)
                           ELSE LinuxMacImplementation_run_test_batch(name, status)

(* ------------------------------- run_tasks ----------------------------- *)

\* Mutant: success is overwritten by the latest result.
Accumulate_Overwrite(acc, ret) == ret

\* if not task.op(...): success = False
Accumulate(acc, ret) == IF ~ret THEN FALSE ELSE acc

NoResp == [exc |-> "none", status |-> 0]

\* What a call observed: the inputs the environment gave it.
Observed(oserr, installed, status, dns, resp) ==
    [oserr |-> oserr, installed |-> installed, status |-> status,
     dns |-> dns, resp |-> resp]

NoObs == Observed("none", TRUE, 0, NoPTR, NoResp)

NoCall ==
    [op |-> "none", ret |-> FALSE, exc |-> "none", filesBefore |-> files,
     http |-> << >>, spawn |-> << >>, obs |-> NoObs, again |-> FALSE]

\* One statement "if not task.op(...)" of run_tasks: the call, its effects,
\* and the way run_tasks goes on (or is left by the exception).
Step(op, r, obs, next) ==
    /\ files' = r.files
    /\ calls' = Append(calls, [op |-> op, ret |-> r.ret, exc |-> r.exc])
    /\ last' = [op |-> op, ret |-> r.ret, exc |-> r.exc, filesBefore |-> files,
                http |-> r.http, spawn |-> r.spawn, obs |-> obs,
                again |-> (op = "create_text_file" /\ file_path \in marked)]
    /\ IF r.exc # "none"
         THEN pc' = "aborted" /\ success' = success
         ELSE pc' = next /\ success' = Accumulate(success, r.ret)
    /\ marked' = IF op = "create_text_file" /\ r.exc = "none" /\ r.ret
                   THEN marked \cup {file_path} ELSE marked
    /\ UNCHANGED <<variant, dirs, writable, scripts, runs, file_path, ip,
                   file_name, returned>>

TypeOK ==
    /\ variant \in {"Windows", "POSIX"}
    /\ dirs \subseteq DirPaths /\ writable \subseteq dirs
    /\ files \in [FilePaths -> Contents]
    /\ scripts \subseteq ScriptNames
    /\ runs \in 0..MaxRuns
    /\ pc \in {"idle", "create_text_file", "ping_url", "request_and_get",
               "run_test_batch", "return", "done", "aborted"}
    /\ file_path \in PathArgs /\ ip \in Addresses /\ file_name \in ScriptNames
    /\ success \in BOOLEAN /\ returned \in BOOLEAN
    /\ marked \subseteq PathArgs

Init ==
    /\ variant \in {"Windows", "POSIX"}
    /\ dirs = DirPaths
    /\ writable \in SUBSET dirs
    /\ files \in [FilePaths -> {"absent", "old"}]
    /\ scripts = {"test.sh"}
    /\ runs = 0
    /\ pc = "idle"
    /\ file_path = [comps |-> Root, trail |-> TRUE]
    /\ ip = "127.0.0.1"
    /\ file_name = "test.sh"
    /\ success = TRUE
    /\ returned = FALSE
    /\ calls = << >>
    /\ last = NoCall
    /\ marked = {}

\* run_tasks(task, file_path, ip, file_name) is entered: success = True
StartRun ==
    /\ pc \in {"idle", "done", "aborted"}
    /\ runs < MaxRuns
    /\ runs' = runs + 1
    /\ file_path' \in PathArgs
    /\ ip' \in Addresses
    /\ file_name' \in ScriptNames
    /\ success' = TRUE
    /\ calls' = << >>
    /\ last' = NoCall
    /\ pc' = "create_text_file"
    /\ UNCHANGED <<variant, dirs, writable, files, scripts, returned, marked>>

CallCreateTextFile ==
    /\ pc = "create_text_file"
    /\ \E oserr \in OsErrors :
         Step("create_text_file", create_text_file(file_path, oserr),
              Observed(oserr, TRUE, 0, NoPTR, NoResp), "ping_url")

CallPingUrl ==
    /\ pc = "ping_url"
    /\ \E installed \in BOOLEAN, status \in ExitStatuses :
         /\ (~installed => status = 0)
         /\ Step("ping_url", ping_url(ip, installed, status),
                 Observed("none", installed, status, NoPTR, NoResp),
                 "request_and_get")

CallRequestAndGet ==
    /\ pc = "request_and_get"
    /\ \E dns \in Hosts \cup {NoPTR}, resp \in HttpOutcomes \cup {NoResp} :
         /\ (dns = NoPTR <=> resp = NoResp)
         /\ Step("request_and_get", request_and_get(ip, dns, resp),
                 Observed("none", TRUE, 0, dns, resp), "run_test_batch")

CallRunTestBatch ==
    /\ pc = "run_test_batch"
    /\ \E status \in ExitStatuses :
         /\ (~isfile(file_name) => status = 0)
         /\ Step("run_test_batch", run_test_batch(file_name, status),
                 Observed("none", TRUE, status, NoPTR, NoResp), "return")

\* return success
Return ==
    /\ pc = "return"
    /\ returned' = success
    /\ pc' = "done"
    /\ UNCHANGED <<variant, dirs, writable, files, scripts, runs, file_path, ip,
                   file_name, success, calls, last, marked>>

Next ==
    \/ StartRun
    \/ CallCreateTextFile
    \/ CallPingUrl
    \/ CallRequestAndGet
    \/ CallRunTestBatch
    \/ Return

Spec == Init /\ [][Next]_vars

(* ------------------------------- claims -------------------------------- *)

Order == <<"create_text_file", "ping_url", "request_and_get", "run_test_batch">>

OpsOf(cs) == [i \in DOMAIN cs |-> cs[i].op]

Failures(cs) == {i \in DOMAIN cs : ~cs[i].ret}

\* The marker file inside the directory the caller named.
MarkerIn(p) == Path(p.comps, MarkerName)

\* C1: when run_tasks returns, it returns true if and only if every one of
\* the operations it called returned Success.
C1_ReturnsConjunction ==
    pc = "done" => (returned <=> \A i \in DOMAIN calls : calls[i].ret)

\* C1 witness: a run that returned false with exactly one Failure, the first
\* operation's, the three later operations having returned Success.
C1_Witness ==
    /\ pc = "done"
    /\ Len(calls) = 4
    /\ Failures(calls) = {1}
    /\ ~returned

\* C2: every run of run_tasks, however its operations end, has invoked each of
\* the four operations exactly once, in the fixed order.
C2_AllFourInOrder ==
    pc \in {"done", "aborted"} => OpsOf(calls) = Order

\* C3: no operation is left by an exception, in either variant, so run_tasks
\* is never aborted.
C3_NoExceptionEscapes ==
    /\ pc # "aborted"
    /\ \A i \in DOMAIN calls : calls[i].exc = "none"

\* C4: create_text_file on a path that names nothing returns Failure (a
\* boolean, not an exception) and leaves every file as it was.
C4_MissingDirFails ==
    ( /\ last.op = "create_text_file"
      /\ file_path.comps \notin dirs
      /\ file_path.comps \notin FilePaths )
    => ( /\ last.exc = "none"
         /\ ~last.ret
         /\ files = last.filesBefore )

\* C5: create_text_file on an existing writable directory, the OS reporting no
\* error, returns Success, and afterwards Hello.txt with content "Hello" is in
\* that directory and no other file has changed.
C5_MarkerInGivenDir ==
    ( /\ last.op = "create_text_file"
      /\ file_path.comps \in dirs
      /\ file_path.comps \in writable
      /\ last.obs.oserr = "none" )
    => ( /\ last.exc = "none"
         /\ last.ret
         /\ files[MarkerIn(file_path)] = MarkerContent
         /\ \A f \in FilePaths \ {MarkerIn(file_path)} :
                files[f] = last.filesBefore[f] )

\* C6: create_text_file called again on a writable directory it has already
\* marked, the marker file being there, returns Failure in the Windows variant
\* and Success in the POSIX variant.
C6_SecondCallByVariant ==
    ( /\ last.op = "create_text_file"
      /\ last.again
      /\ file_path.comps \in dirs
      /\ file_path.comps \in writable
      /\ last.filesBefore[MarkerIn(file_path)] # "absent"
      /\ last.obs.oserr = "none" )
    => ( /\ last.exc = "none"
         /\ last.ret <=> (variant = "POSIX") )

\* C7: when the reverse lookup fails, request_and_get returns Failure and sends
\* no HTTP request; a GET is sent only by request_and_get, at most once, after
\* a successful lookup and to the host name the lookup returned.
C7_NoGetWithoutPtr ==
    /\ (last.op = "request_and_get" /\ last.obs.dns = NoPTR)
         => (last.exc = "none" /\ ~last.ret /\ last.http = << >>)
    /\ last.http # << >>
         => ( /\ last.op = "request_and_get"
              /\ last.obs.dns # NoPTR
              /\ Len(last.http) = 1
              /\ last.http[1].url = <<"http://", last.obs.dns>> )

\* C7 witness: request_and_get has run on an address without PTR record.
C7_Witness ==
    /\ last.op = "request_and_get"
    /\ last.obs.dns = NoPTR
    /\ ~last.ret
    /\ last.http = << >>

\* C8: when the reverse lookup succeeds, request_and_get returns Success if a
\* response arrives, whatever its status code, and Failure if the GET ends in a
\* RequestException (the timeout included).
C8_AnyStatusIsSuccess ==
    (last.op = "request_and_get" /\ last.obs.dns # NoPTR)
    => ( /\ last.exc = "none"
         /\ last.obs.resp.exc = "none" => last.ret
         /\ last.obs.resp.exc \in RequestExceptions => ~last.ret )

\* C8 witness: a 404 response was received and request_and_get returned Success.
C8_Witness ==
    /\ last.op = "request_and_get"
    /\ last.obs.dns \in Hosts
    /\ last.obs.resp = [exc |-> "none", status |-> 404]
    /\ last.ret

\* C9: run_test_batch on a name that is no existing file returns Failure and
\* spawns no child process.
C9_MissingScriptFails ==
    (last.op = "run_test_batch" /\ ~isfile(file_name))
    => ( /\ last.exc = "none"
         /\ ~last.ret
         /\ last.spawn = << >> )

\* C9 witness: run_test_batch has run on a missing file.
C9_Witness ==
    /\ last.op = "run_test_batch"
    /\ ~isfile(file_name)
    /\ ~last.ret

\* C10: run_test_batch on an existing file launches it as one child process in
\* the current working directory and returns Success whatever the child's exit
\* status.
C10_ExistingScriptRuns ==
    (last.op = "run_test_batch" /\ isfile(file_name))
    => ( /\ last.exc = "none"
         /\ last.ret
         /\ Len(last.spawn) = 1
         /\ last.spawn[1].cwd = "cwd" )

====
